---- MODULE Spec2Model ----
(***************************************************************************)
(* State-machine model of sapi::Sandbox (sandboxed_api/sandbox.cc): the    *)
(* controller's lifecycle (Init, Terminate, Exit, AwaitResult), its        *)
(* boundary helpers (Allocate, Free, Symbol, Transfer*, SetWallTimeLimit)  *)
(* and the Call engine with its pointer synchronisation.                   *)
(*                                                                         *)
(* The controller is one thread: `pc` is its position.  The worker is a    *)
(* separate process: it can terminate between any two controller steps.    *)
(* sandbox2 (Sandbox2, Executor), RPCChannel and the v::Var classes are    *)
(* collaborators whose code is outside sandbox.cc; they are modelled by    *)
(* their contracts.                                                        *)
(***************************************************************************)
EXTENDS Integers, Sequences, FiniteSets, TLC

\* ------------------------------------------------------------------ bounds
\* Workers one Sandbox instance may spawn over its life.
MaxWorkers == 2
\* Caller-side pointee variables (and worker heap addresses).
NumVars == 2
\* Longest argument list handed to Call.
MaxArgs == 2
\* Longest argument list of a Call interleaved with the boundary helpers.
MaxArgsLife == 1

Workers == 1..MaxWorkers
VarIds == 1..NumVars
Addrs == 1..NumVars
Bytes == {0, 1}

SyncTypes == {"None", "Before", "After", "Both"}
RetTypes == {"Int", "Float", "Fd"}
\* Final results of a terminated worker (sandbox2::Result), as far as
\* sandbox.cc tells them apart (lines 116-117): a clean exit, or anything else
\* (setup error, violation, signal, timeout, external kill).
Finals == {"OK", "FAILED"}

VARIABLES
    \* ---- sapi::Sandbox fields
    fork_client_,   \* 0 (null) or the id of the fork-server it talks to
    s2_,            \* 0 (null) or the worker the Sandbox2 handle owns
    comms_,         \* worker whose comms object is held (0: none)
    pid_,           \* worker whose PID is held (0: none)
    rpc_channel_,   \* worker the RPC channel is bound to (0: none)
    result_,        \* stored sandbox2::Result ("UNSET" until first await)
    \* ---- sandbox2 / worker side
    wstate,         \* worker -> "none" | "running" | a final status | "reaped"
    wlimit,         \* wall-time limit of the current handle's worker (0: off)
    killReq,        \* Kill() was issued on the current handle
    exitReq,        \* an Exit request was sent to the current worker
    nspawn,         \* workers spawned so far
    nfs,            \* fork-servers started successfully so far
    mem,            \* worker memory: address -> byte
    allocd,         \* addresses reserved in the current worker's heap
    \* ---- caller side
    vars,           \* pointee variable -> [local, remote]
    \* ---- controller position and the operation in progress
    pc,
    cur,            \* the operation in progress: arguments, loop index, ...
    \* ---- observation
    lastOp,         \* operation in progress or last returned
    status,         \* status the last returned operation gave ("-" in progress)
    trace,          \* requests the operation made, in order
    entry,          \* the state the operation found at its entry
    ret,            \* the return variable handed to the Call: [type, val, fd]
    \* ---- Transaction
    tx              \* the Run in progress: position, retry budget, history

sandboxVars == <<fork_client_, s2_, comms_, pid_, rpc_channel_, result_>>
workerVars == <<wstate, wlimit, killReq, exitReq, nspawn, nfs, mem, allocd>>
callerVars == <<vars>>
ctlVars == <<pc, cur>>
obsVars == <<lastOp, status, trace, entry, ret>>
vars_all == <<sandboxVars, workerVars, callerVars, ctlVars, obsVars, tx>>

\* ------------------------------------------------------------------ helpers
Terminated(w) == wstate[w] \in Finals

\* IsActive that looks at the handle only and not at the worker behind it.
IsActiveHandleOnly == s2_ # 0

\* bool Sandbox::IsActive() const { return s2_ && !s2_->IsTerminated(); }
IsActive == s2_ # 0 /\ ~Terminated(s2_)

Ev(op, arg, ok, val) == [op |-> op, arg |-> arg, ok |-> ok, val |-> val]

NoCur == [name |-> "-"]
NoEntry == [active |-> FALSE, wst |-> "none"]

\* A return variable as the caller hands it to Call: nothing written yet.
FreshRet(t) == [type |-> t, val |-> 0, fd |-> -1]
NoRet == FreshRet("-")

\* A Transaction that is not running.
TxIdle == [pc |-> "idle", k |-> 0, left |-> 0, calls |-> 0, log |-> <<>>,
           startActive |-> FALSE, result |-> "-"]

\* The state an operation finds: the Sandbox fields, the state of the worker
\* its handle owns, and the caller's variables.
Snapshot ==
    [active |-> IsActive, s2 |-> s2_,
     wst |-> IF s2_ = 0 THEN "none" ELSE wstate[s2_],
     comms |-> comms_, pid |-> pid_,
     rpc |-> rpc_channel_, result |-> result_, fork |-> fork_client_,
     nspawn |-> nspawn, nfs |-> nfs, wlimit |-> wlimit, vars |-> vars]

\* An operation that runs to its return in one step.  pc = "returned" is
\* the moment the caller has the status in hand.
Return(op, st, evs) ==
    /\ pc' = "returned"
    /\ cur' = NoCur
    /\ lastOp' = op
    /\ status' = st
    /\ trace' = evs
    /\ entry' = Snapshot
    /\ ret' = NoRet

Init ==
    /\ fork_client_ = 0 /\ s2_ = 0 /\ comms_ = 0 /\ pid_ = 0 /\ rpc_channel_ = 0
    /\ result_ = "UNSET"
    /\ wstate = [w \in Workers |-> "none"]
    /\ wlimit = 0 /\ killReq = FALSE /\ exitReq = FALSE
    /\ nspawn = 0 /\ nfs = 0
    /\ mem = [a \in Addrs |-> 0]
    /\ allocd = {}
    /\ vars = [v \in VarIds |-> [local |-> 0, remote |-> 0]]
    /\ ret = NoRet
    /\ pc = "idle" /\ cur = NoCur
    /\ lastOp = "-" /\ status = "-" /\ trace = <<>>
    /\ entry = NoEntry
    /\ tx = TxIdle

\* ------------------------------------------------------------------ worker
\* The worker terminates: cleanly when it was asked to exit, or otherwise at
\* any time (policy violation, crash, wall-time limit, Kill).  Its memory is
\* gone with it.
WorkerDies ==
    \E w \in Workers, f \in Finals :
        /\ pc # "returned"
        /\ wstate[w] = "running"
        /\ f = "OK" => exitReq
        /\ wstate' = [wstate EXCEPT ![w] = f]
        /\ mem' = [a \in Addrs |-> 0]
        /\ allocd' = {}
        /\ UNCHANGED <<wlimit, killReq, exitReq, nspawn, nfs>>
        /\ UNCHANGED <<sandboxVars, callerVars, ctlVars, obsVars>>
    /\ UNCHANGED tx

\* The caller goes on after an operation returned: what it observed of the
\* operation is dropped.
Continue ==
    /\ pc = "returned"
    /\ pc' = "idle"
    /\ lastOp' = "-" /\ status' = "-" /\ trace' = <<>>
    /\ entry' = NoEntry /\ ret' = NoRet
    /\ cur' = NoCur
    /\ UNCHANGED <<sandboxVars, workerVars, callerVars>>
    /\ UNCHANGED tx

\* ------------------------------------------------------------------ Init
\* Init that does not look whether the sandbox is active and spawns again.
InitActiveRespawns ==
    /\ pc = "idle"
    /\ IsActive
    /\ nspawn < MaxWorkers
    /\ nspawn' = nspawn + 1
    /\ wstate' = [wstate EXCEPT ![s2_] = "reaped", ![nspawn + 1] = "running"]
    /\ s2_' = nspawn + 1 /\ comms_' = nspawn + 1
    /\ pid_' = nspawn + 1 /\ rpc_channel_' = nspawn + 1
    /\ mem' = [a \in Addrs |-> 0]
    /\ allocd' = {}
    /\ Return("Init", "OK", <<Ev("Spawn", nspawn + 1, TRUE, fork_client_)>>)
    /\ UNCHANGED <<fork_client_, result_, wlimit, killReq, exitReq, nfs, callerVars>>
    /\ UNCHANGED tx

\* Sandbox::Init, lines 130-134: already initialized.
InitAlreadyActive ==
    /\ pc = "idle"
    /\ IsActive
    /\ Return("Init", "OK", <<>>)
    /\ UNCHANGED <<sandboxVars, workerVars, callerVars>>
    /\ UNCHANGED tx

\* Init that starts a fork-server whether or not it already has a client.
NoForkClientNeverLooked == TRUE

\* Sandbox::Init, line 137: if (!fork_client_).
NoForkClient == fork_client_ = 0

\* Sandbox::Init, lines 136-177: the fork-server is not running and cannot be
\* brought up: no executable FD for the embedded library, an empty library
\* path, or StartForkServer() gave no client.
InitFailBeforeSpawn ==
    /\ pc = "idle"
    /\ ~IsActive
    /\ NoForkClient
    /\ \E why \in {"no_fd", "no_path", "no_forkserver"} :
        Return("Init",
               IF why = "no_path" THEN "FailedPrecondition" ELSE "Unavailable",
               IF why = "no_forkserver"
                   THEN <<Ev("StartForkServer", 0, FALSE, 0)>> ELSE <<>>)
    /\ UNCHANGED <<sandboxVars, workerVars, callerVars>>
    /\ UNCHANGED tx

\* Init that keeps the comms object it held.
CommsKept(w) == comms_

\* Sandbox::Init, line 204: comms_ = s2_->comms().
CommsOf(w) == w

\* Sandbox::Init, lines 136-215: start the fork-server if there is no client
\* yet, spawn a worker from it, take its comms and PID, build the RPC channel.
\* RunAsync() reports false when the worker's setup failed; Init then calls
\* Terminate() and returns Unavailable.
InitSpawn ==
    /\ pc = "idle"
    /\ ~IsActive
    /\ nspawn < MaxWorkers
    /\ \E res \in BOOLEAN, up \in BOOLEAN :
        LET w == nspawn + 1
            startFs == NoForkClient
            fs == IF startFs THEN nfs + 1 ELSE fork_client_
            evs == (IF startFs THEN <<Ev("StartForkServer", fs, TRUE, 0)>> ELSE <<>>)
                   \o <<Ev("Spawn", w, res, fs)>>
        IN  /\ res => up
            /\ fork_client_' = fs
            /\ nfs' = IF startFs THEN nfs + 1 ELSE nfs
            /\ nspawn' = w
            /\ wstate' = [x \in Workers |->
                            IF x = w THEN (IF up THEN "running" ELSE "FAILED")
                            ELSE IF x = s2_ THEN "reaped" ELSE wstate[x]]
            /\ s2_' = w /\ comms_' = CommsOf(w) /\ pid_' = w
            /\ rpc_channel_' = comms_'
            /\ wlimit' = 0 /\ killReq' = FALSE /\ exitReq' = FALSE
            /\ mem' = [a \in Addrs |-> 0]
            /\ allocd' = {}
            /\ lastOp' = "Init"
            /\ trace' = evs
            /\ entry' = Snapshot
            /\ ret' = NoRet
            /\ IF res
                 THEN pc' = "returned" /\ cur' = NoCur /\ status' = "OK"
                 ELSE /\ pc' = "init_terminate"
                      /\ cur' = [name |-> "Init"]
                      /\ status' = "-"
    /\ UNCHANGED <<result_, callerVars>>
    /\ UNCHANGED tx

\* ------------------------------------------------------------------ Terminate
\* What the operation that ran Terminate returns once Terminate is done.
TermStatus(caller) == IF caller = "Init" THEN "Unavailable" ELSE "OK"

\* Terminate that does not look whether the sandbox is active.
TerminateBeginUnchecked(caller, graceful, evs) ==
    /\ cur' = [name |-> "Terminate", graceful |-> graceful, caller |-> caller]
    /\ status' = "-"
    /\ IF graceful
         THEN pc' = "exit" /\ trace' = evs /\ UNCHANGED killReq
         ELSE /\ pc' = "await"
              /\ killReq' = TRUE
              /\ trace' = Append(evs, Ev("Kill", s2_, TRUE, 0))

\* Sandbox::Terminate, lines 102-113: return at once if not active, else ask
\* the worker to exit (Exit()) or kill it straight away.
TerminateBegin(caller, graceful, evs) ==
    /\ cur' = [name |-> "Terminate", graceful |-> graceful, caller |-> caller]
    /\ IF ~IsActive
      THEN /\ pc' = "returned"
           /\ status' = TermStatus(caller)
           /\ trace' = evs
           /\ UNCHANGED killReq
      ELSE /\ status' = "-"
           /\ IF graceful
                THEN pc' = "exit" /\ trace' = evs /\ UNCHANGED killReq
                ELSE /\ pc' = "await"
                     /\ killReq' = TRUE
                     /\ trace' = Append(evs, Ev("Kill", s2_, TRUE, 0))

Terminate ==
    /\ pc = "idle"
    /\ \E graceful \in BOOLEAN :
        TerminateBegin("Terminate", graceful, <<>>)
    /\ lastOp' = "Terminate"
    /\ entry' = Snapshot
    /\ ret' = NoRet
    /\ UNCHANGED <<sandboxVars, callerVars>>
    /\ UNCHANGED <<wstate, wlimit, exitReq, nspawn, nfs, mem, allocd>>
    /\ UNCHANGED tx

\* Init that returns the error of a failed start without calling Terminate().
InitTerminateSkipped ==
    /\ pc = "init_terminate"
    /\ pc' = "returned"
    /\ status' = "Unavailable"
    /\ UNCHANGED <<cur, trace, lastOp, entry, ret>>
    /\ UNCHANGED <<sandboxVars, workerVars, callerVars>>
    /\ UNCHANGED tx

\* Sandbox::Init, lines 210-213: the Terminate() call of a failed start.
InitTerminate ==
    /\ pc = "init_terminate"
    /\ TerminateBegin("Init", TRUE, trace)
    /\ UNCHANGED <<lastOp, entry, ret>>
    /\ UNCHANGED <<sandboxVars, callerVars>>
    /\ UNCHANGED <<wstate, wlimit, exitReq, nspawn, nfs, mem, allocd>>
    /\ UNCHANGED tx

\* Exit that leaves the worker's wall-time limit as it was.
ExitLimitKept(old) == old

\* Sandbox::Exit, line 415: s2_->SetWallTimeLimit(1).
ExitLimit(old) == 1

\* Sandbox::Exit, lines 410-416: nothing if not active; else give the worker
\* one second and send the Exit request.
Exit ==
    /\ pc = "exit"
    /\ IF ~IsActive
         THEN /\ pc' = "await"
              /\ UNCHANGED <<wlimit, exitReq, trace>>
         ELSE /\ pc' = "exit_rpc"
              /\ wlimit' = ExitLimit(wlimit)
              /\ exitReq' = TRUE
              /\ trace' = trace \o <<Ev("SetWallTimeLimit", s2_, TRUE, ExitLimit(wlimit)),
                                     Ev("Exit", rpc_channel_, TRUE, 0)>>
    /\ UNCHANGED <<cur, lastOp, status, entry, ret>>
    /\ UNCHANGED <<sandboxVars, callerVars>>
    /\ UNCHANGED <<wstate, killReq, nspawn, nfs, mem, allocd>>
    /\ UNCHANGED tx

\* The Exit RPC returns: OK when the worker left on request; an error when
\* the worker answered otherwise or was lost while the request was pending.
ExitRpcOutcomes ==
    IF Terminated(rpc_channel_) THEN {wstate[rpc_channel_] = "OK"} ELSE BOOLEAN

\* Exit that does not kill the worker when the Exit RPC failed.
ExitReplyNeverKills ==
    /\ pc = "exit_rpc"
    /\ \E ok \in ExitRpcOutcomes :
        trace' = trace \o <<Ev("ExitReply", rpc_channel_, ok, 0)>>
    /\ pc' = "await"
    /\ UNCHANGED <<cur, lastOp, status, entry, ret>>
    /\ UNCHANGED <<sandboxVars, workerVars, callerVars>>
    /\ UNCHANGED tx

\* Sandbox::Exit, lines 416-419: kill the worker if the Exit RPC failed.
ExitReply ==
    /\ pc = "exit_rpc"
    /\ \E ok \in ExitRpcOutcomes :
        /\ killReq' = (killReq \/ ~ok)
        /\ trace' = trace \o <<Ev("ExitReply", rpc_channel_, ok, 0)>>
                          \o (IF ok THEN <<>> ELSE <<Ev("Kill", s2_, TRUE, 0)>>)
    /\ pc' = "await"
    /\ UNCHANGED <<cur, lastOp, status, entry, ret>>
    /\ UNCHANGED <<sandboxVars, callerVars>>
    /\ UNCHANGED <<wstate, wlimit, exitReq, nspawn, nfs, mem, allocd>>
    /\ UNCHANGED tx

\* Sandbox::AwaitResult, lines 394-400, as Terminate (line 115) and the
\* public entry run it: wait for the worker's final Result, store it and
\* release the child handle.
AwaitDone ==
    /\ pc = "await"
    /\ s2_ # 0
    /\ Terminated(s2_)
    /\ result_' = wstate[s2_]
    /\ s2_' = 0
    /\ wstate' = [wstate EXCEPT ![s2_] = "reaped"]
    /\ wlimit' = 0 /\ killReq' = FALSE /\ exitReq' = FALSE
    /\ trace' = trace \o <<Ev("Await", s2_, TRUE, 0), Ev("Release", s2_, TRUE, 0)>>
    /\ pc' = "returned"
    /\ status' = TermStatus(cur.caller)
    /\ UNCHANGED <<cur, lastOp, entry, ret>>
    /\ UNCHANGED <<fork_client_, comms_, pid_, rpc_channel_, callerVars>>
    /\ UNCHANGED <<nspawn, nfs, mem, allocd>>
    /\ UNCHANGED tx

\* Sandbox::AwaitResult, lines 394-400, called by the user.
AwaitResult ==
    /\ pc = "idle"
    /\ lastOp' = "AwaitResult"
    /\ entry' = Snapshot
    /\ trace' = <<>>
    /\ ret' = NoRet
    /\ IF s2_ = 0
         THEN pc' = "returned" /\ cur' = NoCur /\ status' = "OK"
         ELSE /\ pc' = "await"
              /\ cur' = [name |-> "AwaitResult", graceful |-> FALSE, caller |-> "AwaitResult"]
              /\ status' = "-"
    /\ UNCHANGED <<sandboxVars, workerVars, callerVars>>
    /\ UNCHANGED tx

\* ------------------------------------------------------------------ RPC channel and variables
\* RPCChannel::Allocate as v::Var::Allocate uses it: the worker's malloc
\* reserves any free address, or the request fails.
AllocOutcomes ==
    {[ok |-> FALSE, addr |-> 0]} \cup {[ok |-> TRUE, addr |-> a] : a \in Addrs \ allocd}

\* v::Var::Allocate: remote_ptr is set from the reply.
VarAllocate(vs, v, o) == IF o.ok THEN [vs EXCEPT ![v].remote = o.addr] ELSE vs

\* v::Var::TransferToSandboxee: the local bytes are written at remote_ptr.
VarTransferTo(m, vs, v, ok) == IF ok THEN [m EXCEPT ![vs[v].remote] = vs[v].local] ELSE m

\* v::Var::TransferFromSandboxee: the bytes at remote_ptr replace the local ones.
VarTransferFrom(m, vs, v, ok) == IF ok THEN [vs EXCEPT ![v].local = m[vs[v].remote]] ELSE vs

\* Status a failed request of each kind gives.
RpcError(kind) ==
    CASE kind = "Allocate" -> "ResourceExhausted"
      [] kind = "Free" -> "Internal"
      [] OTHER -> "Unavailable"

\* ------------------------------------------------------------------ boundary helpers
\* Sandbox::Allocate, lines 219-224.
Allocate ==
    /\ pc = "idle"
    /\ \E v \in VarIds, automatic_free \in BOOLEAN :
        IF ~IsActive
          THEN /\ Return("Allocate", "Unavailable", <<>>)
               /\ UNCHANGED <<vars, allocd>>
          ELSE /\ vars[v].remote = 0
               /\ \E o \in AllocOutcomes :
                    /\ vars' = VarAllocate(vars, v, o)
                    /\ allocd' = IF o.ok THEN allocd \cup {o.addr} ELSE allocd
                    /\ Return("Allocate", IF o.ok THEN "OK" ELSE RpcError("Allocate"),
                              <<Ev("Allocate", v, o.ok, automatic_free)>>)
    /\ UNCHANGED sandboxVars
    /\ UNCHANGED <<wstate, wlimit, killReq, exitReq, nspawn, nfs, mem>>
    /\ UNCHANGED tx

\* Sandbox::Free, lines 226-231.  Freeing an address the worker's heap does
\* not hold is rejected by the worker or goes unnoticed.
Free ==
    /\ pc = "idle"
    /\ \E v \in VarIds :
        IF ~IsActive
          THEN /\ Return("Free", "Unavailable", <<>>)
               /\ UNCHANGED <<vars, allocd>>
          ELSE /\ vars[v].remote # 0
               /\ \E ok \in BOOLEAN :
                    /\ vars' = IF ok THEN [vars EXCEPT ![v].remote = 0] ELSE vars
                    /\ allocd' = IF ok THEN allocd \ {vars[v].remote} ELSE allocd
                    /\ Return("Free", IF ok THEN "OK" ELSE RpcError("Free"),
                              <<Ev("Free", v, ok, vars[v].remote)>>)
    /\ UNCHANGED sandboxVars
    /\ UNCHANGED <<wstate, wlimit, killReq, exitReq, nspawn, nfs, mem>>
    /\ UNCHANGED tx

\* Sandbox::Symbol, lines 373-378.
Symbol ==
    /\ pc = "idle"
    /\ IF ~IsActive
         THEN Return("Symbol", "Unavailable", <<>>)
         ELSE \E ok \in BOOLEAN :
                Return("Symbol", IF ok THEN "OK" ELSE RpcError("Symbol"),
                       <<Ev("Symbol", 0, ok, 0)>>)
    /\ UNCHANGED <<sandboxVars, workerVars, callerVars>>
    /\ UNCHANGED tx

\* Sandbox::TransferToSandboxee, lines 380-385.
TransferToSandboxee ==
    /\ pc = "idle"
    /\ \E v \in VarIds :
        IF ~IsActive
          THEN /\ Return("TransferToSandboxee", "Unavailable", <<>>)
               /\ UNCHANGED mem
          ELSE /\ vars[v].remote # 0
               /\ \E ok \in BOOLEAN :
                    /\ mem' = VarTransferTo(mem, vars, v, ok)
                    /\ Return("TransferToSandboxee",
                              IF ok THEN "OK" ELSE RpcError("TransferTo"),
                              <<Ev("TransferTo", v, ok, vars[v].remote)>>)
    /\ UNCHANGED <<sandboxVars, callerVars>>
    /\ UNCHANGED <<wstate, wlimit, killReq, exitReq, nspawn, nfs, allocd>>
    /\ UNCHANGED tx

\* Sandbox::TransferFromSandboxee, lines 387-392.
TransferFromSandboxee ==
    /\ pc = "idle"
    /\ \E v \in VarIds :
        IF ~IsActive
          THEN /\ Return("TransferFromSandboxee", "Unavailable", <<>>)
               /\ UNCHANGED vars
          ELSE /\ vars[v].remote # 0
               /\ \E ok \in BOOLEAN :
                    /\ vars' = VarTransferFrom(mem, vars, v, ok)
                    /\ Return("TransferFromSandboxee",
                              IF ok THEN "OK" ELSE RpcError("TransferFrom"),
                              <<Ev("TransferFrom", v, ok, vars[v].remote)>>)
    /\ UNCHANGED <<sandboxVars, workerVars>>
    /\ UNCHANGED tx

\* Limits a caller passes to SetWallTimeLimit.
UserLimits == {0, 2}

\* Sandbox::SetWallTimeLimit, lines 402-408.
SetWallTimeLimit ==
    /\ pc = "idle"
    /\ \E limit \in UserLimits :
        IF ~IsActive
          THEN /\ Return("SetWallTimeLimit", "Unavailable", <<>>)
               /\ UNCHANGED wlimit
          ELSE /\ wlimit' = limit
               /\ Return("SetWallTimeLimit", "OK", <<Ev("SetWallTimeLimit", s2_, TRUE, limit)>>)
    /\ UNCHANGED <<sandboxVars, callerVars>>
    /\ UNCHANGED <<wstate, killReq, exitReq, nspawn, nfs, mem, allocd>>
    /\ UNCHANGED tx

\* ------------------------------------------------------------------ Call
\* v::Pointable sync types: SYNC_BEFORE and SYNC_AFTER are bits, SYNC_BOTH
\* is both of them, SYNC_NONE neither.
\* The SYNC_BEFORE test done as an equality instead of a bit test.
HasBeforeExact(sync) == sync = "Before"

HasBefore(sync) == sync \in {"Before", "Both"}
HasAfter(sync) == sync \in {"After", "Both"}

\* Arguments a caller passes: a by-value integer, a file descriptor not yet
\* sent to the worker, or a pointer to any pointee variable under any sync
\* type (the same pointee may be passed more than once).  By-value floats
\* differ from integers only in the slot they are copied to and are left out.
ArgSet ==
    {[type |-> t, var |-> 0, sync |-> "None", rfd |-> -1] : t \in {"Int", "Fd"}}
    \cup {[type |-> "Pointer", var |-> v, sync |-> sy, rfd |-> -1] :
            v \in VarIds, sy \in SyncTypes}

ArgLists == UNION {[1..n -> ArgSet] : n \in 0..MaxArgs}

\* The SYNC_NONE test that never holds.
IsSyncNoneNever(sync) == FALSE

\* Sandbox::SynchronizePtrBefore, line 242: nothing to do for SYNC_NONE.
IsSyncNone(sync) == sync = "None"

\* Result of a synchronisation step: its status, the variables, worker
\* memory and heap it leaves, and the requests it made.
SyncResult(st, vs, m, al, evs) ==
    [st |-> st, vars |-> vs, mem |-> m, allocd |-> al, evs |-> evs]

\* Allocation in the pre-call synchronisation only for pointers that are pushed.
NeedsAllocPushedOnly(vs, arg) ==
    vs[arg.var].remote = 0 /\ arg.sync \in {"Before", "Both"}

\* Sandbox::SynchronizePtrBefore, line 246: the pointee has no remote memory.
NeedsAlloc(vs, arg) == vs[arg.var].remote = 0

\* Sandbox::SynchronizePtrBefore, lines 233-263, for the argument at index i.
\* allocO and xferOk are the outcomes of the Allocate and TransferTo requests
\* if it makes them.
SynchronizePtrBefore(i, arg, allocO, xferOk) ==
    IF ~IsActive THEN SyncResult("Unavailable", vars, mem, allocd, <<>>)
    ELSE IF arg.type # "Pointer" THEN SyncResult("OK", vars, mem, allocd, <<>>)
    ELSE IF IsSyncNone(arg.sync) THEN SyncResult("OK", vars, mem, allocd, <<>>)
    ELSE
      LET v == arg.var
          needAlloc == NeedsAlloc(vars, arg)
          vs1 == IF needAlloc THEN VarAllocate(vars, v, allocO) ELSE vars
          al1 == IF needAlloc /\ allocO.ok THEN allocd \cup {allocO.addr} ELSE allocd
          ev1 == IF needAlloc THEN <<Ev("Allocate", i, allocO.ok, TRUE)>> ELSE <<>>
      IN  IF needAlloc /\ ~allocO.ok
            THEN SyncResult(RpcError("Allocate"), vars, mem, allocd, ev1)
          ELSE IF ~HasBefore(arg.sync)
            THEN SyncResult("OK", vs1, mem, al1, ev1)
          ELSE SyncResult(IF xferOk THEN "OK" ELSE RpcError("TransferTo"),
                          vs1, VarTransferTo(mem, vs1, v, xferOk), al1,
                          ev1 \o <<Ev("TransferTo", i, xferOk, vs1[v].remote)>>)

\* Sandbox::SynchronizePtrAfter, lines 265-291, for the argument at index i.
SynchronizePtrAfter(i, arg, xferOk) ==
    IF ~IsActive THEN SyncResult("Unavailable", vars, mem, allocd, <<>>)
    ELSE IF arg.type # "Pointer" THEN SyncResult("OK", vars, mem, allocd, <<>>)
    ELSE IF ~HasAfter(arg.sync) THEN SyncResult("OK", vars, mem, allocd, <<>>)
    ELSE IF vars[arg.var].remote = 0
      THEN SyncResult("FailedPrecondition", vars, mem, allocd, <<>>)
    ELSE SyncResult(IF xferOk THEN "OK" ELSE RpcError("TransferFrom"),
                    VarTransferFrom(mem, vars, arg.var, xferOk), mem, allocd,
                    <<Ev("TransferFrom", i, xferOk, vars[arg.var].remote)>>)

\* The value Call copies into the argument's inline slot (lines 323-338):
\* a pointer gives its pointee's remote address, an FD its worker-side number.
InlineValue(arg, vs, rfd) ==
    CASE arg.type = "Pointer" -> [slot |-> "int", val |-> vs[arg.var].remote]
      [] arg.type = "Fd" -> [slot |-> "int", val |-> rfd]
      [] arg.type = "Float" -> [slot |-> "float", val |-> 0]
      [] OTHER -> [slot |-> "int", val |-> 0]

\* Call that kills the worker when it fails.
CallReturnsKilling(st, evs) ==
    /\ pc' = "returned"
    /\ status' = st
    /\ trace' = trace \o evs \o (IF st # "OK" THEN <<Ev("Kill", s2_, TRUE, 0)>> ELSE <<>>)
    /\ killReq' = (killReq \/ st # "OK")

\* Call returns st from the middle of its body.
CallReturns(st, evs) ==
    /\ pc' = "returned"
    /\ status' = st
    /\ trace' = trace \o evs
    /\ UNCHANGED killReq

\* Sandbox::Call, lines 293-304, for argument lists drawn from `lists`: the
\* Active check and the FuncCall header.
CallWith(lists) ==
    /\ pc = "idle"
    /\ IF ~IsActive
         THEN Return("Call", "Unavailable", <<>>)
         ELSE \E args \in lists :
                /\ pc' = IF Len(args) = 0 THEN "call_rpc" ELSE "call_args"
                /\ cur' = [name |-> "Call", args |-> args, i |-> 1, rfcall |-> <<>>,
                           oob |-> {}]
                /\ lastOp' = "Call"
                /\ status' = "-"
                /\ trace' = <<>>
                /\ entry' = Snapshot
                /\ ret' = NoRet
    /\ UNCHANGED <<sandboxVars, workerVars, vars>>
    /\ UNCHANGED tx

Call == CallWith(ArgLists)

\* Call as a caller makes it that passes at most MaxArgsLife arguments.
CallShort == CallWith({l \in ArgLists : Len(l) <= MaxArgsLife})

\* A failed pre-call synchronisation that does not stop the Call.
PreSyncStopsNever(r) == FALSE

\* Sandbox::Call, line 321: SAPI_RETURN_IF_ERROR on the pre-call
\* synchronisation of an argument.
PreSyncStops(r) == r.st # "OK"

\* The per-argument arrays of the FuncCall record (arg_size, arg_type,
\* aux_type, aux_size, args) have a fixed number of elements.
ArgsMax == MaxArgs

\* The record after args[i] is written at lines 324-337.  Within the arrays
\* the slot takes the value.  Beyond them the write is out of bounds: it
\* lands outside the record (hit = 0) or on another slot of it.
WriteSlot(rfcall, i, slot, hit) ==
    IF i <= ArgsMax THEN Append(rfcall, slot)
    ELSE IF hit = 0 THEN rfcall
    ELSE [rfcall EXCEPT ![hit] = slot]

\* Sandbox::Call, lines 308-343: one turn of the argument loop.  The loop
\* index is not compared with the size of the arrays: a turn beyond them
\* writes out of bounds (lines 309-310), which the controller may not survive.
CallArg ==
    /\ pc = "call_args"
    /\ LET i == cur.i
           arg == cur.args[i]
           cur1 == [cur EXCEPT !.oob = IF i > ArgsMax THEN @ \cup {i} ELSE @]
       IN \/ /\ i > ArgsMax
             /\ pc' = "crashed"
             /\ cur' = cur1
             /\ UNCHANGED <<vars, mem, allocd, status, trace, killReq>>
          \/ \E allocO \in AllocOutcomes, xferOk \in BOOLEAN, fdOk \in BOOLEAN,
                hit \in 0..Len(cur.rfcall) :
            LET r == SynchronizePtrBefore(i, arg, allocO, xferOk)
                sendFd == arg.type = "Fd" /\ arg.rfd < 0
                fdActive == IsActive
                rfd == IF sendFd /\ fdActive /\ fdOk THEN 4 ELSE arg.rfd
                fdEvs == IF sendFd /\ fdActive THEN <<Ev("SendFd", i, fdOk, rfd)>> ELSE <<>>
            IN  /\ hit = 0 \/ i > ArgsMax
                /\ vars' = r.vars
                /\ mem' = r.mem
                /\ allocd' = r.allocd
                /\ IF PreSyncStops(r)
                     THEN CallReturns(r.st, r.evs) /\ cur' = cur1
                   ELSE IF sendFd /\ ~(fdActive /\ fdOk)
                     THEN CallReturns("Unavailable", r.evs \o fdEvs) /\ cur' = cur1
                   ELSE /\ cur' = [cur1 EXCEPT
                                     !.i = i + 1,
                                     !.rfcall = WriteSlot(@, i, InlineValue(arg, r.vars, rfd), hit)]
                        /\ pc' = IF i = Len(cur.args) THEN "call_rpc" ELSE "call_args"
                        /\ trace' = trace \o r.evs \o fdEvs
                        /\ UNCHANGED <<status, killReq>>
    /\ UNCHANGED <<sandboxVars, ret, lastOp, entry>>
    /\ UNCHANGED <<wstate, wlimit, exitReq, nspawn, nfs>>
    /\ UNCHANGED tx

\* What the callee may do to the worker's memory while it runs.
CalleeEffects == {mem} \cup {[mem EXCEPT ![a] = b] : a \in allocd, b \in Bytes}

\* The FuncRet a live worker sends back: any type, with an integer and a
\* float slot.
FuncRets == {[ret_type |-> t, int_val |-> 1, float_val |-> 2] : t \in RetTypes}

\* Unpacking that always takes the integer slot.
UnpackIntSlot(fret) == fret.int_val

\* Sandbox::Call, lines 352-356: the float slot for a Float reply, the
\* integer slot otherwise.
UnpackSlot(fret) ==
    IF fret.ret_type = "Float" THEN fret.float_val ELSE fret.int_val

\* Sandbox::Call, lines 344-360, for the return variable r0: send the
\* FuncCall, receive the FuncRet, unpack it into the return variable and
\* fetch a returned FD.
CallRpcWith(r0) ==
    LET sent == [args |-> cur.rfcall, argc |-> Len(cur.args), mem |-> mem]
        last == Len(cur.args) = 0
    IN
    \/ \* the request or its reply is lost
       /\ CallReturns("Unavailable", <<Ev("FuncCall", 0, FALSE, sent)>>) /\ cur' = cur
       /\ ret' = r0
       /\ UNCHANGED mem
    \/ \E fret \in FuncRets, m \in CalleeEffects, fdOk \in BOOLEAN :
         /\ ~Terminated(rpc_channel_)
         /\ fret.ret_type = "Fd" \/ fdOk
         /\ mem' = m
         /\ IF fret.ret_type # r0.type
              THEN /\ CallReturns("Internal", <<Ev("FuncCall", 0, FALSE, sent)>>) /\ cur' = cur
                   /\ ret' = r0
              ELSE LET val == UnpackSlot(fret)
                       isFd == fret.ret_type = "Fd"
                       evs == <<Ev("FuncCall", 0, TRUE, sent), Ev("FuncRet", 0, TRUE, m)>>
                              \o (IF isFd THEN <<Ev("RecvFd", 0, fdOk, 0)>> ELSE <<>>)
                   IN  /\ ret' = [r0 EXCEPT !.val = val,
                                            !.fd = IF isFd /\ fdOk THEN 3 ELSE @]
                       /\ IF isFd /\ ~fdOk
                            THEN CallReturns("Unavailable", evs) /\ cur' = cur
                          ELSE IF last
                            THEN CallReturns("OK", evs) /\ cur' = cur
                          ELSE /\ pc' = "call_sync"
                               /\ cur' = [cur EXCEPT !.i = 1]
                               /\ trace' = trace \o evs
                               /\ UNCHANGED <<status, killReq>>

\* Sandbox::Call, lines 344-360.  The return variable is first read at line
\* 344, so the variable the caller handed in is drawn here.
CallRpc ==
    /\ pc = "call_rpc"
    /\ \E rt \in RetTypes : CallRpcWith(FreshRet(rt))
    /\ UNCHANGED <<sandboxVars, vars, lastOp, entry>>
    /\ UNCHANGED <<wstate, wlimit, exitReq, nspawn, nfs, allocd>>
    /\ UNCHANGED tx

\* Sandbox::Call, lines 362-370: one turn of the post-call loop, and the
\* final return.
CallSync ==
    /\ pc = "call_sync"
    /\ LET i == cur.i
           arg == cur.args[i]
       IN \E xferOk \in BOOLEAN :
            LET r == SynchronizePtrAfter(i, arg, xferOk)
            IN  /\ vars' = r.vars
                /\ IF r.st # "OK"
                     THEN CallReturns(r.st, r.evs) /\ cur' = cur
                   ELSE IF i = Len(cur.args)
                     THEN CallReturns("OK", r.evs) /\ cur' = cur
                   ELSE /\ cur' = [cur EXCEPT !.i = i + 1]
                        /\ pc' = "call_sync"
                        /\ trace' = trace \o r.evs
                        /\ UNCHANGED <<status, killReq>>
    /\ UNCHANGED <<sandboxVars, ret, lastOp, entry>>
    /\ UNCHANGED <<wstate, wlimit, exitReq, nspawn, nfs, mem, allocd>>
    /\ UNCHANGED tx

\* The caller writes a pointee's local bytes between operations
\* (main_stringop.cc line 118).
CallerWrites ==
    /\ pc = "idle"
    /\ \E v \in VarIds, b \in Bytes :
        /\ vars[v].local # b
        /\ vars' = [vars EXCEPT ![v].local = b]
    /\ Return("CallerWrites", "OK", <<>>)
    /\ UNCHANGED <<sandboxVars, workerVars>>
    /\ UNCHANGED tx

\* ------------------------------------------------------------------ specifications
\* The worker, the lifecycle operations and the steps inside them.
Lifecycle ==
    \/ WorkerDies
    \/ Continue
    \/ InitAlreadyActive
    \/ InitFailBeforeSpawn
    \/ InitSpawn
    \/ InitTerminate
    \/ Terminate
    \/ Exit
    \/ ExitReply
    \/ AwaitDone

CallSteps ==
    \/ CallArg
    \/ CallRpc
    \/ CallSync

\* A caller using the whole interface, with short argument lists.
Next ==
    \/ Lifecycle
    \/ AwaitResult
    \/ Allocate
    \/ Free
    \/ Symbol
    \/ TransferToSandboxee
    \/ TransferFromSandboxee
    \/ SetWallTimeLimit
    \/ CallShort
    \/ CallSteps

Spec == Init /\ [][Next]_vars_all

\* A caller that initialises, calls with full argument lists, writes its
\* buffers between calls and initialises again when the worker is gone.
NextCall ==
    \/ WorkerDies
    \/ Continue
    \/ InitAlreadyActive
    \/ InitFailBeforeSpawn
    \/ InitSpawn
    \/ InitTerminate
    \/ Exit
    \/ ExitReply
    \/ AwaitDone
    \/ CallerWrites
    \/ Call
    \/ CallSteps

SpecCall == Init /\ [][NextCall]_vars_all

\* Argument lists one longer than the arrays of the FuncCall record, of
\* integers and pointers to the first pointee.
LongArgLists ==
    [1..(ArgsMax + 1) ->
        {a \in ArgSet : a.type = "Int" \/ (a.type = "Pointer" /\ a.var = 1 /\ a.sync = "Both")}]

CallLong == CallWith(LongArgLists)

\* A caller that passes more arguments than the FuncCall record holds.
NextArgc ==
    \/ WorkerDies
    \/ Continue
    \/ InitSpawn
    \/ InitTerminate
    \/ Exit
    \/ ExitReply
    \/ AwaitDone
    \/ CallLong
    \/ CallSteps

SpecArgc == Init /\ [][NextArgc]_vars_all

\* The sandboxer enforces Kill and the wall-time limit: a worker that was
\* killed or runs under a limit terminates.
WorkerStopped == WorkerDies /\ (killReq \/ wlimit > 0)

\* The Exit RPC of a worker that is gone fails: the pending request returns.
ExitRpcFails == rpc_channel_ # 0 /\ Terminated(rpc_channel_) /\ ExitReply

\* A caller that initialises, terminates either way and waits for results.
NextLive ==
    \/ WorkerDies
    \/ Continue
    \/ InitAlreadyActive
    \/ InitFailBeforeSpawn
    \/ InitSpawn
    \/ InitTerminate
    \/ Terminate
    \/ Exit
    \/ ExitReply
    \/ AwaitDone
    \/ AwaitResult
    \/ SetWallTimeLimit

\* The controller takes its own steps; the sandboxer stops a killed or
\* timed-out worker; an RPC pending on a dead worker returns.  A live worker
\* need not answer and need not die.
SpecLive ==
    /\ Init /\ [][NextLive]_vars_all
    /\ WF_vars_all(Exit)
    /\ WF_vars_all(AwaitDone)
    /\ WF_vars_all(ExitRpcFails)
    /\ WF_vars_all(WorkerStopped)

\* ------------------------------------------------------------------ observation predicates
\* The operation found a live worker behind its handle.
EntryActive == entry.s2 # 0 /\ entry.wst = "running"

\* The Sandbox fields are what the operation found.
SandboxAsAtEntry ==
    /\ s2_ = entry.s2 /\ comms_ = entry.comms /\ pid_ = entry.pid
    /\ rpc_channel_ = entry.rpc /\ result_ = entry.result
    /\ fork_client_ = entry.fork

\* The operation is a Call that passed its Active check (line 295).
CallEntered == lastOp = "Call" /\ cur.name = "Call"

\* Names of the requests in the trace, in order.
TraceOps == [k \in 1..Len(trace) |-> trace[k].op]

\* Positions in the trace of the requests named in ops.
Positions(ops) == {k \in 1..Len(trace) : trace[k].op \in ops}

\* Pointer arguments of the Call in progress passed under the sync types in sy.
PtrArgs(sy) ==
    {i \in 1..Len(cur.args) : cur.args[i].type = "Pointer" /\ cur.args[i].sync \in sy}

\* ------------------------------------------------------------------ Transaction
\* BasicTransaction::Run(fn) around the Sandbox: Init if the sandbox is not
\* Active, invoke fn, and on an error Terminate(graceful = false), Init and
\* invoke fn again while retries remain.  fn makes one Call and may reject
\* what the Call gave.
TxMaxRetries == 1

\* One entry of the history of a Run.
TxEv(op, ok, graceful) ==
    [op |-> op, ok |-> ok, graceful |-> graceful, active |-> IsActive]

\* The Transaction takes the status of the Sandbox operation it called and
\* goes on as t.
TxResume(t) ==
    /\ pc = "returned"
    /\ pc' = "idle"
    /\ lastOp' = "-" /\ status' = "-" /\ trace' = <<>>
    /\ entry' = NoEntry /\ ret' = NoRet
    /\ cur' = NoCur
    /\ tx' = t
    /\ UNCHANGED <<sandboxVars, workerVars, callerVars>>

\* A Transaction that retries whatever its budget.
TxRetriesRemainAlways(t) == TRUE

\* Run, step 4: "if retries remain".
TxRetriesRemain(t) == t.left > 0

\* Run, step 4: what follows an error st.
TxOnError(t, st) ==
    IF TxRetriesRemain(t) THEN [t EXCEPT !.pc = "terminate"]
    ELSE [t EXCEPT !.pc = "done", !.result = st]

\* Run(fn) is called on a Transaction with retry budget k.  Step 1: Init is
\* called if the sandbox is not Active.
TxRun ==
    /\ tx.pc = "idle"
    /\ pc = "idle"
    /\ \E k \in 0..TxMaxRetries :
        tx' = [pc |-> IF IsActive THEN "fn" ELSE "init",
               k |-> k, left |-> k, calls |-> 0, log |-> <<>>,
               startActive |-> IsActive, result |-> "-"]
    /\ UNCHANGED <<sandboxVars, workerVars, callerVars, ctlVars, obsVars>>

\* Run, steps 1 and 4: the Init call.
TxInitCall ==
    /\ tx.pc = "init"
    /\ \/ InitFailBeforeSpawn
       \/ InitSpawn

\* Run, steps 1 and 4: Init returned.  A failed Init is an error of the
\* attempt.
TxInitReturn ==
    /\ tx.pc = "init"
    /\ lastOp = "Init"
    /\ LET t == [tx EXCEPT !.log = Append(@, TxEv("Init", status = "OK", FALSE))]
       IN  TxResume(IF status = "OK" THEN [t EXCEPT !.pc = "fn"]
                    ELSE TxOnError(t, status))

\* Run, step 2: fn(sandbox) is invoked.
TxInvoke ==
    /\ tx.pc = "fn"
    /\ pc = "idle"
    /\ tx' = [tx EXCEPT !.pc = "in_fn", !.calls = @ + 1,
                        !.log = Append(@, TxEv("Fn", TRUE, FALSE))]
    /\ UNCHANGED <<sandboxVars, workerVars, callerVars, ctlVars, obsVars>>

\* The Call fn makes (main_stringop.cc line 51).
TxFnCall ==
    /\ tx.pc = "in_fn"
    /\ CallShort

\* Run, steps 3 and 4: fn returns the error of its Call, or an error of its
\* own (TRANSACTION_FAIL_IF_NOT, main_stringop.cc lines 52 and 57), or Ok.
TxFnReturn ==
    /\ tx.pc = "in_fn"
    /\ lastOp = "Call"
    /\ \E userOk \in BOOLEAN :
        LET st == IF status # "OK" THEN status
                  ELSE IF userOk THEN "OK" ELSE "FailedPrecondition"
        IN  TxResume(IF st = "OK" THEN [tx EXCEPT !.pc = "done", !.result = "OK"]
                     ELSE TxOnError(tx, st))

\* Run, step 4: Terminate(graceful = false).
TxTerminateCall ==
    /\ tx.pc = "terminate"
    /\ Terminate
    /\ cur'.graceful = FALSE

\* Run, step 4: Terminate returned; the budget is decremented and Init
\* comes next.
TxTerminateReturn ==
    /\ tx.pc = "terminate"
    /\ lastOp = "Terminate"
    /\ TxResume([tx EXCEPT !.pc = "init", !.left = @ - 1,
                           !.log = Append(@, TxEv("Terminate", TRUE, cur.graceful))])

\* Run has returned tx.result; the Transaction can be run again.
TxFinish ==
    /\ tx.pc = "done"
    /\ tx' = TxIdle
    /\ UNCHANGED <<sandboxVars, workerVars, callerVars, ctlVars, obsVars>>

\* A caller that uses the sandbox through a Transaction only.
NextTx ==
    \/ WorkerDies
    \/ TxRun
    \/ TxInitCall
    \/ TxInitReturn
    \/ TxInvoke
    \/ TxFnCall
    \/ TxFnReturn
    \/ TxTerminateCall
    \/ TxTerminateReturn
    \/ TxFinish
    \/ InitTerminate
    \/ Exit
    \/ ExitReply
    \/ AwaitDone
    \/ CallSteps

SpecTx == Init /\ [][NextTx]_vars_all

\* Positions in the history of the Run of the entries named op.
TxPositions(op) == {n \in 1..Len(tx.log) : tx.log[n].op = op}

\* ------------------------------------------------------------------ C1
BoundaryOps ==
    {"Call", "Allocate", "Free", "Symbol", "TransferToSandboxee",
     "TransferFromSandboxee", "SetWallTimeLimit"}

\* C1: whenever the sandbox is not Active, each of Call, Allocate, Free,
\* Symbol, TransferToSandboxee, TransferFromSandboxee and SetWallTimeLimit
\* returns Unavailable, makes no request, and leaves the Sandbox fields, the
\* worker's limit, the caller's variables and the return variable as they were.
C1_InactiveBoundaryOps ==
    (lastOp \in BoundaryOps /\ ~EntryActive) =>
        /\ pc = "returned"
        /\ status = "Unavailable"
        /\ trace = <<>>
        /\ SandboxAsAtEntry
        /\ wlimit = entry.wlimit
        /\ nspawn = entry.nspawn
        /\ vars = entry.vars
        /\ ret = NoRet

\* A transfer is asked of a sandbox whose worker has died but has not been
\* awaited, for a variable that still holds a remote address.
C1_Witness ==
    /\ pc = "returned"
    /\ lastOp = "TransferFromSandboxee"
    /\ entry.s2 # 0 /\ entry.wst \in Finals
    /\ \E v \in VarIds : vars[v].remote # 0
    /\ status = "Unavailable"

\* ------------------------------------------------------------------ C2
\* C2: in every Call, each Allocate and TransferTo of the pre-call
\* synchronisation is made before the FuncCall is sent, every pointer
\* argument synchronised before the call has been pushed by then, and each
\* TransferFrom of the post-call synchronisation is made after the FuncRet
\* has been received.
C2_SyncAroundFuncCall ==
    CallEntered =>
        /\ \A k \in Positions({"Allocate", "TransferTo"}), c \in Positions({"FuncCall"}) :
              k < c
        /\ \A k \in Positions({"TransferFrom"}) :
              \E r \in Positions({"FuncRet"}) : r < k
        /\ \A c \in Positions({"FuncCall"}), i \in 1..Len(cur.args) :
              (cur.args[i].type = "Pointer" /\ cur.args[i].sync \in {"Before", "Both"}) =>
                  \E k \in 1..(c - 1) :
                      trace[k].op = "TransferTo" /\ trace[k].arg = i /\ trace[k].ok

\* A Call with two pointers synchronised both ways, the first one allocated
\* by the Call, runs to its end.
C2_Witness ==
    /\ pc = "returned" /\ lastOp = "Call" /\ status = "OK"
    /\ Len(cur.args) = 2
    /\ \A i \in 1..2 : cur.args[i].type = "Pointer" /\ cur.args[i].sync = "Both"
    /\ cur.args[1].var # cur.args[2].var
    /\ TraceOps = <<"Allocate", "TransferTo", "TransferTo", "FuncCall", "FuncRet",
                    "TransferFrom", "TransferFrom">>

\* ------------------------------------------------------------------ C3
\* C3: after a successful Call, for each pointer argument synchronised both
\* ways: the worker's memory at the pointee's remote address when the
\* FuncCall was sent held the local bytes the caller had before the Call, the
\* local bytes after the Call are the worker's memory at that address when
\* the FuncRet was received, and the local bytes are unchanged if the callee
\* left that memory untouched.
C3_BothRoundTrip ==
    (pc = "returned" /\ CallEntered /\ status = "OK") =>
        \A i \in PtrArgs({"Both"}), c \in Positions({"FuncCall"}), r \in Positions({"FuncRet"}) :
            LET v == cur.args[i].var
                a == vars[v].remote
                atCall == trace[c].val.mem
                atRet == trace[r].val
            IN  /\ atCall[a] = entry.vars[v].local
                /\ vars[v].local = atRet[a]
                /\ atRet[a] = atCall[a] => vars[v].local = entry.vars[v].local

\* ------------------------------------------------------------------ C4
\* C4: when a request of the pre-call synchronisation (Allocate or
\* TransferTo) fails for the argument at index i, Call returns that error at
\* once: the failed request is the last one the Call makes, no argument
\* beyond i is allocated or transferred, no FuncCall is sent, the return
\* variable is not written and the post-call synchronisation does not run.
C4_PreSyncFailureStops ==
    CallEntered =>
        \A k \in Positions({"Allocate", "TransferTo"}) :
            ~trace[k].ok =>
                /\ pc = "returned"
                /\ status = RpcError(trace[k].op)
                /\ k = Len(trace)
                /\ \A j \in 1..Len(trace) :
                      /\ trace[j].op \notin {"FuncCall", "FuncRet", "TransferFrom", "RecvFd"}
                      /\ trace[j].arg <= trace[k].arg
                /\ ret = NoRet

\* The push of the first argument fails while the second argument is a
\* pointer whose pointee has no remote memory yet.
C4_Witness ==
    /\ pc = "returned" /\ CallEntered
    /\ Len(cur.args) = 2
    /\ trace # <<>>
    /\ LET e == trace[Len(trace)]
       IN e.op = "TransferTo" /\ ~e.ok /\ e.arg = 1
    /\ cur.args[2].type = "Pointer" /\ cur.args[2].sync = "Both"
    /\ vars[cur.args[2].var].remote = 0

\* ------------------------------------------------------------------ C5
\* C5: Init on a sandbox that is already Active returns OK and does nothing:
\* no fork-server is started, no worker is spawned, and the handle, comms,
\* RPC channel, PID and stored Result are the ones it found.
C5_InitWhenActive ==
    (lastOp = "Init" /\ EntryActive) =>
        /\ pc = "returned"
        /\ status = "OK"
        /\ trace = <<>>
        /\ SandboxAsAtEntry
        /\ nspawn = entry.nspawn
        /\ nfs = entry.nfs

\* Init is called again on a sandbox in use: its worker holds memory for a
\* variable.
C5_Witness ==
    /\ pc = "returned" /\ lastOp = "Init" /\ EntryActive
    /\ status = "OK"
    /\ allocd # {}
    /\ \E v \in VarIds : vars[v].remote \in allocd

\* ------------------------------------------------------------------ C6
\* C6: Terminate is idempotent: once it has returned the sandbox is not
\* Active, and Terminate on a sandbox that is not Active returns at once,
\* sends no Exit, issues no Kill, awaits nothing and leaves the stored Result
\* and the other Sandbox fields as they were.
C6_TerminateIdempotent ==
    /\ (pc = "returned" /\ lastOp = "Terminate") =>
          ~(s2_ # 0 /\ wstate[s2_] = "running")
    /\ (lastOp = "Terminate" /\ ~EntryActive) =>
          /\ pc = "returned"
          /\ trace = <<>>
          /\ SandboxAsAtEntry
          /\ ~killReq /\ ~exitReq /\ wlimit = entry.wlimit

\* Terminate is called on a sandbox an earlier Terminate has taken down.
C6_Witness ==
    /\ pc = "returned" /\ lastOp = "Terminate"
    /\ entry.s2 = 0 /\ entry.result # "UNSET" /\ entry.nspawn > 0
    /\ result_ = entry.result

\* ------------------------------------------------------------------ C7
\* C7: when Init returns an error the sandbox is not Active.  If a worker
\* was spawned and failed to start, Terminate() has been called before the
\* error is returned and no worker is left running; if Init failed before
\* spawning, no worker was spawned and the Sandbox fields are untouched.
C7_FailedInitNotActive ==
    (pc = "returned" /\ lastOp = "Init" /\ status # "OK") =>
        /\ ~(s2_ # 0 /\ wstate[s2_] = "running")
        /\ IF Positions({"Spawn"}) # {}
             THEN /\ cur.name = "Terminate" /\ cur.caller = "Init"
                  /\ \A w \in Workers : wstate[w] # "running"
             ELSE /\ nspawn = entry.nspawn
                  /\ SandboxAsAtEntry

\* The worker Init spawned came up although its start was reported failed,
\* and the Terminate() of Init took it down.
C7_Witness ==
    /\ pc = "returned" /\ lastOp = "Init" /\ status = "Unavailable"
    /\ Positions({"Spawn"}) # {}
    /\ Positions({"Await"}) # {}
    /\ s2_ = 0

\* ------------------------------------------------------------------ C8
GracefulOk == <<"SetWallTimeLimit", "Exit", "ExitReply", "Await", "Release">>
GracefulKill == <<"SetWallTimeLimit", "Exit", "ExitReply", "Kill", "Await", "Release">>

\* The requests of a graceful Terminate that found the worker alive in Exit().
GracefulOrder ==
    /\ TraceOps \in {GracefulOk, GracefulKill}
    /\ trace[1].val = 1
    /\ (TraceOps = GracefulKill) <=> ~trace[3].ok

\* C8 as stated: Terminate on an Active sandbox follows a fixed order.
\* Graceful: it sets the wall-time limit to 1, then sends Exit, and kills if
\* and only if the Exit RPC fails.  Not graceful: it kills without sending
\* Exit.  In both cases the Result is awaited after the Exit or Kill step and
\* the child handle is released after the await.
C8_TerminateOrder ==
    (pc = "returned" /\ lastOp = "Terminate" /\ EntryActive) =>
        IF cur.graceful
          THEN GracefulOrder
          ELSE TraceOps = <<"Kill", "Await", "Release">>

\* C8 amended: as stated, except that a graceful Terminate whose worker has
\* terminated on its own between Terminate's Active check and Exit's sets no
\* limit, sends no Exit and issues no Kill: it only awaits the Result and
\* releases the handle.
C8_TerminateOrderUnlessWorkerGone ==
    (pc = "returned" /\ lastOp = "Terminate" /\ EntryActive) =>
        IF cur.graceful
          THEN \/ GracefulOrder
               \/ TraceOps = <<"Await", "Release">> /\ result_ # "OK"
          ELSE TraceOps = <<"Kill", "Await", "Release">>

\* A graceful Terminate whose Exit RPC failed has killed the worker.
C8_Witness ==
    /\ pc = "returned" /\ lastOp = "Terminate" /\ EntryActive
    /\ cur.graceful
    /\ TraceOps = GracefulKill

\* ------------------------------------------------------------------ C9
\* C9: Call never terminates the sandbox: whatever its outcome it issues no
\* Kill and no Exit, awaits no Result, releases no handle and sets no limit,
\* the Sandbox fields stay as they were, and after a failed Call a sandbox
\* whose worker is still alive is still Active.
C9_CallNeverTerminates ==
    CallEntered =>
        /\ Positions({"Kill", "Exit", "ExitReply", "Await", "Release", "SetWallTimeLimit"}) = {}
        /\ SandboxAsAtEntry
        /\ ~killReq /\ ~exitReq /\ wlimit = entry.wlimit
        /\ (pc = "returned" /\ status # "OK" /\ wstate[entry.s2] = "running") =>
              (s2_ # 0 /\ wstate[s2_] = "running")

\* A Call fails after its FuncCall was sent and the worker is still there.
C9_Witness ==
    /\ pc = "returned" /\ CallEntered
    /\ status # "OK"
    /\ Positions({"FuncCall"}) # {}
    /\ s2_ # 0 /\ wstate[s2_] = "running"

\* ------------------------------------------------------------------ C10
\* The Call in progress passes pointee v under SYNC_NONE only.
NoneOnly(v) ==
    \A j \in 1..Len(cur.args) :
        (cur.args[j].type = "Pointer" /\ cur.args[j].var = v) => cur.args[j].sync = "None"

\* C10 as stated: for a pointer argument passed under SYNC_NONE the Call
\* makes no Allocate, TransferTo or TransferFrom request for that argument,
\* the pointee's remote address is unchanged by the Call and, when it was
\* absent, the address sent in the FuncCall for that argument is zero.
C10_NonePointerUntouched ==
    CallEntered =>
        \A i \in PtrArgs({"None"}) :
            LET v == cur.args[i].var
            IN  /\ \A k \in Positions({"Allocate", "TransferTo", "TransferFrom"}) :
                      trace[k].arg # i
                /\ vars[v].remote = entry.vars[v].remote
                /\ entry.vars[v].remote = 0 =>
                      \A c \in Positions({"FuncCall"}) : trace[c].val.args[i].val = 0

\* C10 amended: no request is made for that argument; if the Call passes the
\* pointee under SYNC_NONE only, its remote address is unchanged by the Call
\* and, when it was absent, the address sent for that argument is zero.
C10_NonePointerUntouchedUnlessAliased ==
    CallEntered =>
        \A i \in PtrArgs({"None"}) :
            LET v == cur.args[i].var
            IN  /\ \A k \in Positions({"Allocate", "TransferTo", "TransferFrom"}) :
                      trace[k].arg # i
                /\ NoneOnly(v) =>
                      /\ vars[v].remote = entry.vars[v].remote
                      /\ entry.vars[v].remote = 0 =>
                            \A c \in Positions({"FuncCall"}) : trace[c].val.args[i].val = 0

\* A successful Call passes an unallocated pointee under SYNC_NONE and
\* another pointee synchronised both ways.
C10_Witness ==
    /\ pc = "returned" /\ CallEntered /\ status = "OK"
    /\ Len(cur.args) = 2
    /\ cur.args[1].type = "Pointer" /\ cur.args[1].sync = "None"
    /\ cur.args[2].type = "Pointer" /\ cur.args[2].sync = "Both"
    /\ cur.args[1].var # cur.args[2].var
    /\ entry.vars[cur.args[1].var].remote = 0
    /\ entry.vars[cur.args[2].var].remote = 0
    /\ vars[cur.args[1].var].remote = 0
    /\ vars[cur.args[2].var].remote # 0

\* ------------------------------------------------------------------ C11
\* The pointee of argument i had remote memory when the pre-call
\* synchronisation reached that argument: it had at entry, or an earlier
\* argument of this Call allocated it.
AllocatedBefore(i) ==
    \/ entry.vars[cur.args[i].var].remote # 0
    \/ \E k \in Positions({"Allocate"}) :
          /\ trace[k].ok /\ trace[k].arg < i
          /\ cur.args[trace[k].arg].var = cur.args[i].var

\* The requests of kind op the Call made for argument i.
ReqsFor(op, i) == {k \in Positions({op}) : trace[k].arg = i}

\* Pre-call synchronisation that allocates (with automatic free) for the
\* sync types in allocFor and pushes for "Before" and "Both": requests are
\* made for those arguments only, and once the FuncCall is sent every such
\* argument without remote memory was allocated and every pushed one pushed.
PreSyncPolicy(allocFor) ==
    CallEntered =>
        \A i \in PtrArgs(SyncTypes) :
            LET sy == cur.args[i].sync
            IN  /\ \A k \in ReqsFor("Allocate", i) :
                      sy \in allocFor /\ ~AllocatedBefore(i) /\ trace[k].val = TRUE
                /\ ReqsFor("TransferTo", i) # {} => sy \in {"Before", "Both"}
                /\ Positions({"FuncCall"}) # {} =>
                      /\ (sy \in allocFor /\ ~AllocatedBefore(i)) =>
                            \E k \in ReqsFor("Allocate", i) : trace[k].ok
                      /\ sy \in {"Before", "Both"} =>
                            \E k \in ReqsFor("TransferTo", i) : trace[k].ok

\* C11 as stated: the pre-call synchronisation allocates an unallocated
\* pointee (with automatic free) and pushes its bytes exactly for pointer
\* arguments passed as Before or Both; for None and After it makes neither
\* an Allocate nor a TransferTo request.
C11_PreSyncOnlyBeforeBoth == PreSyncPolicy({"Before", "Both"})

\* C11 amended: an unallocated pointee is allocated (with automatic free)
\* for pointer arguments passed as Before, After or Both; its bytes are
\* pushed exactly for Before or Both; for None neither request is made, for
\* After an Allocate and no TransferTo.
C11_PreSyncAllocatesForAfterToo == PreSyncPolicy({"Before", "After", "Both"})

\* A Call passes an unallocated pointee as After and another as Before and
\* sends its FuncCall: the first was allocated and not pushed, the second
\* allocated and pushed.
C11_Witness ==
    /\ CallEntered /\ Positions({"FuncCall"}) # {}
    /\ Len(cur.args) = 2
    /\ cur.args[1].type = "Pointer" /\ cur.args[1].sync = "After"
    /\ cur.args[2].type = "Pointer" /\ cur.args[2].sync = "Before"
    /\ cur.args[1].var # cur.args[2].var
    /\ ReqsFor("Allocate", 1) # {} /\ ReqsFor("TransferTo", 1) = {}
    /\ ReqsFor("Allocate", 2) # {} /\ ReqsFor("TransferTo", 2) # {}

\* ------------------------------------------------------------------ C12
\* C12: a Call with more arguments than the per-argument arrays of the
\* FuncCall record hold fails with InvalidArgument: it writes no slot at an
\* index beyond the arrays and sends no FuncCall whose argc exceeds their size.
C12_ArgcOutOfRangeRejected ==
    (CallEntered /\ Len(cur.args) > ArgsMax) =>
        /\ pc \in {"call_args", "returned"}
        /\ pc = "returned" => status = "InvalidArgument"
        /\ cur.oob = {}
        /\ \A c \in Positions({"FuncCall"}) : trace[c].val.argc <= ArgsMax

\* ------------------------------------------------------------------ C13
\* C13: the fork-server is started successfully at most once on one Sandbox:
\* a fork client that is set is never replaced or cleared, a fork-server
\* start is attempted only while no fork client is set, and every worker is
\* spawned from the fork-server of the client the Sandbox holds.
C13_ForkServerOnce ==
    /\ nfs <= 1
    /\ fork_client_ # 0 => fork_client_ = nfs
    /\ lastOp # "-" =>
          /\ entry.fork # 0 => fork_client_ = entry.fork
          /\ Positions({"StartForkServer"}) # {} => entry.fork = 0
          /\ \A k \in Positions({"Spawn"}) :
                fork_client_ # 0 /\ trace[k].val = fork_client_

\* A second worker has been spawned by an Init that found the fork client
\* of the first Init and started no fork-server.
C13_Witness ==
    /\ pc = "returned" /\ lastOp = "Init" /\ status = "OK"
    /\ nspawn = 2
    /\ entry.fork # 0
    /\ Positions({"Spawn"}) # {}
    /\ Positions({"StartForkServer"}) = {}

\* ------------------------------------------------------------------ C14
\* C14: a Run of a Transaction with retry budget k invokes the user function
\* at most k + 1 times; between two consecutive invocations the sandbox is
\* terminated non-gracefully and then initialised again; and a Run that
\* found the sandbox not Active initialises it before the first invocation.
C14_TransactionRetries ==
    /\ tx.calls <= tx.k + 1
    /\ tx.calls = Cardinality(TxPositions("Fn"))
    /\ \A i, j \in TxPositions("Fn") :
          (i < j /\ \A m \in TxPositions("Fn") : ~(i < m /\ m < j)) =>
              \E t \in TxPositions("Terminate"), n \in TxPositions("Init") :
                  /\ i < t /\ t < n /\ n < j
                  /\ ~tx.log[t].graceful /\ ~tx.log[t].active
                  /\ tx.log[n].ok /\ tx.log[n].active
    /\ (tx.pc # "idle" /\ ~tx.startActive) =>
          \A i \in TxPositions("Fn") :
              \E n \in TxPositions("Init") : n < i /\ tx.log[n].ok

\* A Run with budget 1 on a sandbox that was not Active has returned after
\* two invocations of the user function.
C14_Witness ==
    /\ tx.pc = "done" /\ tx.k = 1 /\ ~tx.startActive
    /\ tx.calls = 2

\* ------------------------------------------------------------------ C15
\* C15: a Terminate that found the sandbox Active eventually returns, with
\* the worker it found awaited and its handle released, whether or not the
\* worker answers the Exit request and whenever the worker dies.
C15_TerminateCompletes ==
    (lastOp = "Terminate" /\ EntryActive /\ pc # "returned")
        ~> (/\ lastOp = "Terminate" /\ pc = "returned"
            /\ s2_ = 0
            /\ \A w \in Workers : w = entry.s2 => wstate[w] = "reaped"
            /\ Positions({"Await"}) # {})

\* A graceful Terminate has returned whose Exit request failed and whose
\* worker was killed and awaited.
C15_Witness ==
    /\ lastOp = "Terminate" /\ EntryActive /\ pc = "returned"
    /\ cur.graceful
    /\ \E k \in Positions({"ExitReply"}) : ~trace[k].ok
    /\ Positions({"Kill"}) # {}
    /\ Positions({"Await"}) # {}
    /\ s2_ = 0

\* ------------------------------------------------------------------ C16
\* The Call got its FuncRet and its worker is still running.
PostSyncReached ==
    /\ CallEntered
    /\ Positions({"FuncRet"}) # {}
    /\ s2_ # 0 /\ wstate[s2_] = "running"

\* No post-call synchronisation of such a Call gives FailedPrecondition.
PostSyncNoFailedPrecondition ==
    PostSyncReached => status # "FailedPrecondition"

\* C16: in a Call whose pre-call synchronisation and FuncCall succeeded and
\* whose worker is alive, the post-call synchronisation never returns
\* FailedPrecondition: every pointer argument passed under After or Both has
\* a pointee with memory allocated in the worker, whether or not it was
\* allocated before the Call.
C16_PostSyncPointeeAllocated ==
    /\ PostSyncNoFailedPrecondition
    /\ PostSyncReached =>
          \A i \in PtrArgs({"After", "Both"}) :
              /\ vars[cur.args[i].var].remote # 0
              /\ vars[cur.args[i].var].remote \in allocd

\* ------------------------------------------------------------------ C17
\* C17: whenever the sandbox has a running worker, also one spawned by an
\* Init after a Terminate or a worker death, every variable that has a
\* remote address has it reserved in that worker's heap, and every address
\* a Call used for a transfer is reserved in the worker that served it.
C17_RemotePtrAllocatedInWorker ==
    (s2_ # 0 /\ wstate[s2_] = "running") =>
        /\ \A v \in VarIds : vars[v].remote # 0 => vars[v].remote \in allocd
        /\ CallEntered =>
              \A k \in Positions({"TransferTo", "TransferFrom"}) :
                  trace[k].ok => trace[k].val \in allocd

\* ------------------------------------------------------------------ C18
\* Requests named op that the Call in progress made for pointee v.
ReqsOfVar(op, v) ==
    {k \in Positions({op}) : cur.args[trace[k].arg].var = v}

\* The Call allocates for pointee v at most once, and not at all when v had
\* a remote address at the Call's entry; that address is kept.
AllocatedAtMostOnce(v) ==
    /\ Cardinality(ReqsOfVar("Allocate", v)) <= 1
    /\ entry.vars[v].remote # 0 =>
          /\ ReqsOfVar("Allocate", v) = {}
          /\ vars[v].remote = entry.vars[v].remote

\* The Call pushed argument i to its pointee's remote address.
PushedAgain(i) ==
    \E k \in Positions({"TransferTo"}) :
        /\ trace[k].arg = i /\ trace[k].ok
        /\ trace[k].val = vars[cur.args[i].var].remote

\* The worker memory the FuncCall met holds, at v's remote address, the
\* bytes the caller had in v when it made the Call.
CalleeSeesLocal(v) ==
    \A k \in Positions({"FuncCall"}) :
        trace[k].val.mem[vars[v].remote] = entry.vars[v].local

\* The pointer arguments of a Call that returned OK on a live worker, passed
\* under Before or Both, whose pointee has its address in the worker's heap.
PushedArgs ==
    IF CallEntered /\ pc = "returned" /\ status = "OK"
         /\ s2_ # 0 /\ wstate[s2_] = "running"
      THEN {i \in PtrArgs({"Before", "Both"}) : vars[cur.args[i].var].remote \in allocd}
      ELSE {}

\* C18: a successful Call that passes a pointee under Before or Both
\* allocates for it at most once and only when it had no remote address,
\* otherwise reuses the address; it pushes the pointee's current local bytes
\* every time, and the callee sees the bytes the caller last wrote.
C18_AllocateOncePushAlways ==
    \A i \in PushedArgs :
        /\ AllocatedAtMostOnce(cur.args[i].var)
        /\ PushedAgain(i)
        /\ CalleeSeesLocal(cur.args[i].var)

\* ------------------------------------------------------------------ C19
\* The return variable is as the caller handed it in.
RetUntouched == ret = FreshRet(ret.type)

\* C19: when the FuncCall RPC fails, the Call returns its error (Unavailable
\* or Internal) at once, the return variable keeps its value and no
\* TransferFrom follows; the return variable is written only after a reply
\* was received, from the float slot for a Float reply and from the integer
\* slot otherwise.
C19_FailedRpcLeavesRet ==
    CallEntered =>
        /\ \A k \in Positions({"FuncCall"}) :
              ~trace[k].ok =>
                  /\ pc = "returned"
                  /\ status \in {"Unavailable", "Internal"}
                  /\ k = Len(trace)
                  /\ RetUntouched
                  /\ Positions({"TransferFrom", "FuncRet"}) = {}
        /\ Positions({"FuncRet"}) = {} => RetUntouched
        /\ Positions({"FuncRet"}) # {} =>
              \E fret \in FuncRets :
                  /\ fret.ret_type = ret.type
                  /\ ret.val = IF ret.type = "Float" THEN fret.float_val
                               ELSE fret.int_val

\* A Call has returned Internal: the reply's type was not the expected one.
C19_Witness ==
    /\ CallEntered /\ pc = "returned"
    /\ status = "Internal"
    /\ \E k \in Positions({"FuncCall"}) : ~trace[k].ok
    /\ PtrArgs({"After", "Both"}) # {}

\* ------------------------------------------------------------------ C20
\* Workers that were spawned and have not terminated.
LiveWorkers == {w \in Workers : wstate[w] = "running"}

\* C20: a Sandbox has at most one live worker, which is the one its handle
\* owns; Init spawns a worker only when it found the sandbox not Active;
\* and the PID, the comms object and the RPC channel the Sandbox holds are
\* those of the worker spawned last.
C20_OneLiveWorker ==
    /\ Cardinality(LiveWorkers) <= 1
    /\ \A w \in LiveWorkers : w = s2_ /\ w = nspawn
    /\ (lastOp = "Init" /\ Positions({"Spawn"}) # {}) => ~EntryActive
    /\ pid_ = nspawn /\ comms_ = nspawn /\ rpc_channel_ = nspawn

\* A second worker is live after the first one was terminated, and the
\* Sandbox holds its PID, comms object and RPC channel.
C20_Witness ==
    /\ nspawn = 2
    /\ LiveWorkers = {2}
    /\ wstate[1] = "reaped"
    /\ s2_ = 2 /\ pid_ = 2 /\ comms_ = 2 /\ rpc_channel_ = 2
====
